---- MODULE Spec2Model ----
(***************************************************************************)
(* A model of snakey (src/main.py): the Game object (snake body and        *)
(* direction, apple, score, speed, game_over) and the driver loop that     *)
(* applies timer auto-moves and key-driven moves to it.                    *)
(*                                                                         *)
(* A Point is the pair <<x, y>>, x the row and y the column, as in the     *)
(* source.  The body is a sequence, index 1 the tail and the last index    *)
(* the head.  speed is the exact rational <<numerator, denominator>> in    *)
(* seconds.                                                                *)
(***************************************************************************)
EXTENDS Integers, Sequences, FiniteSets, TLC

VARIABLES
    width,      \* Game.width  (terminal columns)
    height,     \* Game.height (terminal lines)
    body,       \* Game.snake.body
    direction,  \* Game.snake.direction
    apple,      \* Game.apple.position
    score,      \* Game.score
    speed,      \* Game.speed
    game_over,  \* Game.game_over
    pc,         \* position of the driver: "render", "timer", "key", "done", "crashed"
    cursor_hidden, \* the terminal's cursor is hidden ("\033[?25l" without "\033[?25h")
    raw_mode,   \* stdin is in raw mode (tty.setraw without the tcsetattr that restores)
    paint,      \* whether the run records what is printed (fixed at start; the
                \* surface multiplies the states, so only SpecScreen records it)
    screen,     \* the terminal surface: the glyph shown at each cell that differs
                \* from the empty frame (see Frame)
    afterEat,   \* moves applied since the last apple was eaten (exploration horizon)
    last        \* log of the last driver step: operation, requested direction,
                \* and the branch validate_direction took ("NONE": no move made)

vars == <<width, height, body, direction, apple, score, speed, game_over,
          pc, cursor_hidden, raw_mode, paint, screen, afterEat, last>>

game == <<body, direction, apple, score, speed, game_over>>

term == <<cursor_hidden, raw_mode>>

----------------------------------------------------------------------------
(* Bounds of the exploration *)

\* An apple is not eaten once score has reached MaxScore.
MaxScore == 3

\* After an apple has been eaten at most MaxAfterEat further moves are explored.
MaxAfterEat == 6

\* Terminal sizes <<columns, lines>> that os.get_terminal_size() reports.
TermSizes == {<<5, 5>>, <<5, 6>>, <<20, 24>>, <<21, 21>>, <<22, 22>>}

\* Values of randint(1, 40) that are explored.
DrawSample == {19, 20, 21, 40}

\* Characters read from stdin.
RawKeys == {"w", "a", "s", "d", "q", "D", "Q", "x"}

\* get_key's result when no character is waiting (None)
NoKey == ""

----------------------------------------------------------------------------
(* Data *)

Direction == {"UP", "DOWN", "LEFT", "RIGHT"}

Add(a, b) == <<a[1] + b[1], a[2] + b[2]>>

\* Mutant of DIRECTION_VECTORS: rows and columns exchanged
DIRECTION_VECTORS_Transposed ==
    [d \in Direction |->
        CASE d = "UP"    -> <<0, -1>>
          [] d = "DOWN"  -> <<0, 1>>
          [] d = "LEFT"  -> <<-1, 0>>
          [] d = "RIGHT" -> <<1, 0>>]

DIRECTION_VECTORS ==
    [d \in Direction |->
        CASE d = "UP"    -> <<-1, 0>>
          [] d = "DOWN"  -> <<1, 0>>
          [] d = "LEFT"  -> <<0, -1>>
          [] d = "RIGHT" -> <<0, 1>>]

CONTROLS ==
    [k \in {"w", "s", "a", "d"} |->
        CASE k = "w" -> "UP"
          [] k = "s" -> "DOWN"
          [] k = "a" -> "LEFT"
          [] k = "d" -> "RIGHT"]

opposite_directions ==
    [d \in Direction |->
        CASE d = "UP"    -> "DOWN"
          [] d = "DOWN"  -> "UP"
          [] d = "LEFT"  -> "RIGHT"
          [] d = "RIGHT" -> "LEFT"]

\* str.lower() on the characters of RawKeys
Lower(k) == CASE k = "D" -> "d" [] k = "Q" -> "q" [] OTHER -> k

head(b) == b[Len(b)]

tail(b) == b[1]

RandintLow == 1

RandintHigh == 40

\* The values one randint(1, 40) call returns here
Randint == {v \in DrawSample : RandintLow <= v /\ v <= RandintHigh}

\* Mutant of spawn_apple: the position is drawn inside the walls of the grid
spawn_apple_Clamped(w, h, b, ap) ==
    {<<x, y>> : x \in RandintLow .. h - 2, y \in RandintLow .. w - 2}

\* The positions Game.spawn_apple can make the new apple.position, called on a
\* w x h grid with snake body b and apple position ap
spawn_apple(w, h, b, ap) ==
    {<<x, y>> : x \in RandintLow .. RandintHigh, y \in RandintLow .. RandintHigh}

InitBody == <<<<1, 3>>, <<2, 3>>, <<3, 3>>, <<4, 3>>>>

InitApple == <<20, 20>>

InitSpeed == <<1, 2>>

SpeedFloor == <<1, 20>>

----------------------------------------------------------------------------
(* The terminal surface.  A cell is addressed as the cursor-position        *)
(* sequence "\033[x+1;y+1H" addresses it; its glyph is the last one printed *)
(* there.  Glyphs: "H" and "V" the border lines, "TL", "TR", "BL", "BR" the *)
(* corners, "G0" the green body glyph, "GX" the green head glyph, "R*" the  *)
(* red apple glyph, " " a blank, and the characters of the score text.      *)

\* The frame render draws on an empty w x h canvas: lines 167-170 and 174-177
Frame(c, w, h) ==
    IF c[1] < 0 \/ c[1] > h - 1 \/ c[2] < 0 \/ c[2] > w - 1 THEN " "
    ELSE IF c = <<0, 0>> THEN "TL"
    ELSE IF c = <<0, w - 1>> THEN "TR"
    ELSE IF c = <<h - 1, 0>> THEN "BL"
    ELSE IF c = <<h - 1, w - 1>> THEN "BR"
    ELSE IF c[1] = 0 \/ c[1] = h - 1 THEN "H"
    ELSE IF c[2] = 0 \/ c[2] = w - 1 THEN "V"
    ELSE " "

EmptyScreen == [c \in {} |-> " "]

\* The surface scr after the glyphs of writes, a sequence of <<cell, glyph>>,
\* are printed in order
Apply(scr, writes, w, h) ==
    LET written == {writes[i][1] : i \in DOMAIN writes}
        lastAt(c) == CHOOSE i \in DOMAIN writes :
                        /\ writes[i][1] = c
                        /\ \A j \in DOMAIN writes : writes[j][1] = c => j <= i
        glyph(c) == IF c \in written THEN writes[lastAt(c)][2] ELSE scr[c]
        shown == {c \in DOMAIN scr \cup written : glyph(c) # Frame(c, w, h)}
    IN  [c \in shown |-> glyph(c)]

DigitChar == <<"0", "1", "2", "3", "4", "5", "6", "7", "8", "9">>

\* str(n) for n >= 0, as a sequence of characters
RECURSIVE Str(_)
Str(n) == IF n < 10 THEN <<DigitChar[n + 1]>>
          ELSE Append(Str(n \div 10), DigitChar[(n % 10) + 1])

\* f"Score: {score}"
ScoreText(sc) == <<"S", "c", "o", "r", "e", ":", " ">> \o Str(sc)

\* The writes of the score text from row 0, column 3 on: update_score's
\* "\033[1;4H" and render's canvas[0][i + 3]
ScoreWrites(sc) ==
    [i \in 1 .. Len(ScoreText(sc)) |-> <<<<0, i + 2>>, ScoreText(sc)[i]>>]

\* The writes of one glyph at each cell of a sequence of cells
GlyphWrites(cells, g) == [i \in 1 .. Len(cells) |-> <<cells[i], g>>]

\* Whether render raises IndexError: a canvas write outside the h x w canvas
RenderRaises(b, ap, sc, w, h) ==
    \/ head(b)[1] >= h \/ head(b)[2] >= w
    \/ ap[1] >= h \/ ap[2] >= w
    \/ Len(ScoreText(sc)) + 3 > w

\* The surface render produces: the frame, the body glyph on body cells, the
\* corners, the head, the apple, the score text, written in that order
RenderFrame(b, ap, sc, w, h) ==
    Apply(EmptyScreen,
          GlyphWrites(b, "G0")
          \o << <<<<0, 0>>, "TL">>, <<<<0, w - 1>>, "TR">>,
                <<<<h - 1, 0>>, "BL">>, <<<<h - 1, w - 1>>, "BR">> >>
          \o << <<head(b), "GX">>, <<ap, "R*">> >>
          \o ScoreWrites(sc),
          w, h)

\* The cell move blanks: the tail after validate_direction and append, which
\* is the growth point when the apple was eaten
ErasedCell(b, br) ==
    IF br = "apple" THEN <<tail(b)[1] + 1, tail(b)[2] + 1>> ELSE tail(b)

\* The prints of one move, in order: spawn_apple's apple and update_score's
\* text (apple branch), the blank, the body but the head, the head
MoveWrites(b, new_head, br, newApple, newScore, newBody) ==
    (IF br = "apple"
     THEN << <<newApple, "R*">> >> \o ScoreWrites(newScore)
     ELSE << >>)
    \o << <<ErasedCell(b, br), " ">> >>
    \o GlyphWrites(SubSeq(newBody, 1, Len(newBody) - 1), "G0")
    \o << <<new_head, "GX">> >>

----------------------------------------------------------------------------
(* Game.validate_direction *)

\* Mutant of ValidateBranch: the lower and right walls tested with > instead of >=
ValidateBranch_WallOffByOne(new_head, b, ap, h, w) ==
    IF \/ new_head[1] <= 0
       \/ new_head[1] > h - 1
       \/ new_head[2] <= 0
       \/ new_head[2] > w - 1
    THEN "wall"
    ELSE IF \E i \in 1 .. Len(b) - 1 : b[i][1] = new_head[1] /\ b[i][2] = new_head[2]
    THEN "self"
    ELSE IF new_head = ap
    THEN "apple"
    ELSE "ok"

\* Mutant of ValidateBranch: the tail cell, which the move vacates, is not tested
ValidateBranch_SkipTail(new_head, b, ap, h, w) ==
    IF \/ new_head[1] <= 0
       \/ new_head[1] >= h - 1
       \/ new_head[2] <= 0
       \/ new_head[2] >= w - 1
    THEN "wall"
    ELSE IF \E i \in 2 .. Len(b) - 1 : b[i][1] = new_head[1] /\ b[i][2] = new_head[2]
    THEN "self"
    ELSE IF new_head = ap
    THEN "apple"
    ELSE "ok"

\* Mutant of ValidateBranch: the apple is tested before the wall and the body
ValidateBranch_AppleFirst(new_head, b, ap, h, w) ==
    IF new_head = ap
    THEN "apple"
    ELSE IF \/ new_head[1] <= 0
            \/ new_head[1] >= h - 1
            \/ new_head[2] <= 0
            \/ new_head[2] >= w - 1
    THEN "wall"
    ELSE IF \E i \in 1 .. Len(b) - 1 : b[i][1] = new_head[1] /\ b[i][2] = new_head[2]
    THEN "self"
    ELSE "ok"

\* Mutant of ValidateBranch: the test against the body is left out
ValidateBranch_NoSelf(new_head, b, ap, h, w) ==
    IF \/ new_head[1] <= 0
       \/ new_head[1] >= h - 1
       \/ new_head[2] <= 0
       \/ new_head[2] >= w - 1
    THEN "wall"
    ELSE IF new_head = ap
    THEN "apple"
    ELSE "ok"

\* The branch validate_direction takes for new_head, the body b (new_head
\* not yet appended) and the apple position ap, on an h x w grid.
ValidateBranch(new_head, b, ap, h, w) ==
    IF \/ new_head[1] <= 0
       \/ new_head[1] >= h - 1
       \/ new_head[2] <= 0
       \/ new_head[2] >= w - 1
    THEN "wall"
    ELSE IF \E i \in 1 .. Len(b) - 1 : b[i][1] = new_head[1] /\ b[i][2] = new_head[2]
    THEN "self"
    ELSE IF new_head = ap
    THEN "apple"
    ELSE "ok"

\* Mutant of GameOverAfter: the flag is assigned on every branch
GameOverAfter_Assign(go, br) == br \in {"wall", "self"}

\* game_over after validate_direction took branch br
GameOverAfter(go, br) == IF br \in {"wall", "self"} THEN TRUE ELSE go

\* Mutant of DecreaseSpeed: max(0.05, speed - 0.1)
DecreaseSpeed_Minus(s) ==
    LET n == 10 * s[1] - s[2]
        d == 10 * s[2]
    IN  IF n * SpeedFloor[2] < SpeedFloor[1] * d THEN SpeedFloor ELSE <<n, d>>

\* max(0.05, speed * 0.9)
DecreaseSpeed(s) ==
    LET n == 9 * s[1]
        d == 10 * s[2]
    IN  IF n * SpeedFloor[2] < SpeedFloor[1] * d THEN SpeedFloor ELSE <<n, d>>

\* Mutant of BodyAfterMove: pop(0) is left out
BodyAfterMove_NoPop(b, new_head, br) ==
    LET grown == IF br = "apple"
                 THEN <<<<tail(b)[1] + 1, tail(b)[2] + 1>>>> \o b
                 ELSE b
    IN  Append(grown, new_head)

\* Mutant of BodyAfterMove: pop(0) runs before validate_direction, so the growth
\* point stays in the body
BodyAfterMove_PopFirst(b, new_head, br) ==
    LET grown == IF br = "apple"
                 THEN <<<<tail(b)[1] + 1, tail(b)[2] + 1>>>> \o Tail(b)
                 ELSE Tail(b)
    IN  Append(grown, new_head)

\* Mutant of BodyAfterMove: the growth point is appended, not inserted at 0
BodyAfterMove_GrowAppend(b, new_head, br) ==
    LET grown == IF br = "apple"
                 THEN Append(b, <<tail(b)[1] + 1, tail(b)[2] + 1>>)
                 ELSE b
    IN  Tail(Append(grown, new_head))

\* Mutant of BodyAfterMove: move returns when validate_direction ended the game
BodyAfterMove_StopOnCollision(b, new_head, br) ==
    IF br \in {"wall", "self"}
    THEN b
    ELSE LET grown == IF br = "apple"
                      THEN <<<<tail(b)[1] + 1, tail(b)[2] + 1>>>> \o b
                      ELSE b
         IN  Tail(Append(grown, new_head))

\* snake.body once move has returned: validate_direction's growth insert at
\* index 0 (apple branch only), then append(new_head), then pop(0).
BodyAfterMove(b, new_head, br) ==
    LET grown == IF br = "apple"
                 THEN <<<<tail(b)[1] + 1, tail(b)[2] + 1>>>> \o b
                 ELSE b
    IN  Tail(Append(grown, new_head))

\* Mutant of IncreaseScore: the score is increased twice
IncreaseScore_Twice(sc) == sc + 2

\* self.score += 1
IncreaseScore(sc) == sc + 1

\* Mutant of DirectionAfterMove: snake.direction is not assigned
DirectionAfterMove_Kept(old, new_direction) == old

\* self.snake.direction = new_direction
DirectionAfterMove(old, new_direction) == new_direction

----------------------------------------------------------------------------
(* Game.move, with the validate_direction and spawn_apple calls it makes *)

Move(new_direction, op) ==
    LET new_head == Add(head(body), DIRECTION_VECTORS[new_direction])
        br       == ValidateBranch(new_head, body, apple, height, width)
    IN  /\ score > 0 => afterEat < MaxAfterEat
        /\ br = "apple" => score < MaxScore
        /\ game_over' = GameOverAfter(game_over, br)
        /\ IF br = "apple"
           THEN /\ \E p \in spawn_apple(width, height, body, apple) :
                     p[1] \in Randint /\ p[2] \in Randint /\ apple' = p
                /\ speed' = DecreaseSpeed(speed)
                /\ score' = IncreaseScore(score)
                /\ afterEat' = 0
           ELSE /\ UNCHANGED <<apple, speed, score>>
                /\ afterEat' = IF score > 0 THEN afterEat + 1 ELSE afterEat
        /\ body' = BodyAfterMove(body, new_head, br)
        /\ direction' = DirectionAfterMove(direction, new_direction)
        /\ screen' = IF paint
                     THEN Apply(screen,
                                MoveWrites(body, new_head, br, apple', score', body'),
                                width, height)
                     ELSE screen
        /\ last' = [op |-> op, dir |-> new_direction, hit |-> br]

\* Mutant of GetMovementReturns: the opposite direction is not rejected
GetMovementReturns_NoOpposite(key, dir) ==
    \/ key \notin {"w", "a", "s", "d"}
    \/ CONTROLS[key] = dir

\* Mutant of GetMovementReturns: the current direction is not rejected
GetMovementReturns_NoSame(key, dir) ==
    \/ key \notin {"w", "a", "s", "d"}
    \/ CONTROLS[key] = opposite_directions[dir]

\* Whether get_movement returns without moving (key already lower-cased by get_key)
GetMovementReturns(key, dir) ==
    \/ key \notin {"w", "a", "s", "d"}
    \/ CONTROLS[key] = opposite_directions[dir]
    \/ CONTROLS[key] = dir

----------------------------------------------------------------------------
(* The driver *)

\* The state once Game(size.columns, size.lines) is constructed, the terminal
\* size being one of sizes
InitWith(sizes, recording) ==
    /\ \E size \in sizes : width = size[1] /\ height = size[2]
    /\ body = InitBody
    /\ direction = "DOWN"
    /\ apple = InitApple
    /\ score = 0
    /\ speed = InitSpeed
    /\ game_over = FALSE
    /\ pc = "render"
    /\ cursor_hidden = TRUE
    /\ paint = recording
    /\ screen = EmptyScreen
    /\ raw_mode = FALSE
    /\ afterEat = 0
    /\ last = [op |-> "init", dir |-> "NONE", hit |-> "NONE"]

InitOn(sizes) == InitWith(sizes, FALSE)

Init == InitOn(TermSizes)

\* game.render(): the canvas writes at the head and at the apple raise
\* IndexError when the canvas is too small; render is outside the try block.
Render ==
    /\ pc = "render"
    /\ pc' = IF RenderRaises(body, apple, score, width, height)
             THEN "crashed" ELSE "timer"
    /\ screen' = IF paint /\ ~RenderRaises(body, apple, score, width, height)
                 THEN RenderFrame(body, apple, score, width, height)
                 ELSE screen
    /\ last' = [op |-> "render", dir |-> "NONE", hit |-> "NONE"]
    /\ UNCHANGED <<width, height, paint, game, term, afterEat>>

\* time.time() - last_update >= game.speed: game.move()
AutoMove ==
    /\ pc = "timer"
    /\ Move(direction, "auto")
    /\ pc' = "key"
    /\ UNCHANGED <<width, height, paint, term>>

\* the interval has not elapsed
TimerWait ==
    /\ pc = "timer"
    /\ pc' = "key"
    /\ last' = [op |-> "wait", dir |-> "NONE", hit |-> "NONE"]
    /\ UNCHANGED <<width, height, paint, game, term, screen, afterEat>>

\* Mutant of LoopTest: the loop goes on while game_over is true
LoopTest_Inverted(go) == IF go THEN "timer" ELSE "done"

\* The while condition, evaluated after the key was handled
LoopTest(go) == IF go THEN "done" ELSE "timer"

\* get_key: tcgetattr, tty.setraw, select and read, and in the finally clause
\* tcsetattr with the saved settings, on return and on an exception alike
GetKeyRestores == raw_mode' = FALSE

\* The try statement's finally clause, run when the loop is left for nextpc:
\* print("\033[?25h")
Finally(nextpc) ==
    cursor_hidden' = IF nextpc \in {"done", "crashed"} THEN FALSE ELSE cursor_hidden

\* key == "q": break
KeyQuit ==
    /\ pc = "key"
    /\ \E raw \in RawKeys : Lower(raw) = "q"
    /\ pc' = "done"
    /\ GetKeyRestores
    /\ Finally(pc')
    /\ last' = [op |-> "quit", dir |-> "NONE", hit |-> "NONE"]
    /\ UNCHANGED <<width, height, paint, game, screen, afterEat>>

\* key in Game.CONTROLS: game.get_movement(key)
KeyPress ==
    /\ pc = "key"
    /\ \E raw \in RawKeys :
         LET key == Lower(raw) IN
         /\ key \in DOMAIN CONTROLS
         /\ IF GetMovementReturns(key, direction)
            THEN /\ last' = [op |-> "get_movement", dir |-> CONTROLS[key], hit |-> "NONE"]
                 /\ UNCHANGED <<game, screen, afterEat>>
            ELSE Move(CONTROLS[key], "get_movement")
    /\ pc' = LoopTest(game_over')
    /\ GetKeyRestores
    /\ Finally(pc')
    /\ UNCHANGED <<width, height, paint>>

\* no key is waiting (get_key returns None), or a key that is neither q nor a control
KeyNone ==
    /\ pc = "key"
    /\ \E raw \in RawKeys \cup {NoKey} :
         Lower(raw) # "q" /\ Lower(raw) \notin DOMAIN CONTROLS
    /\ pc' = LoopTest(game_over)
    /\ GetKeyRestores
    /\ Finally(pc')
    /\ last' = [op |-> "idle", dir |-> "NONE", hit |-> "NONE"]
    /\ UNCHANGED <<width, height, paint, game, screen, afterEat>>

\* get_key raises once stdin is in raw mode (select or read fails, or the
\* process is interrupted there): its finally clause restores the terminal
\* settings and the exception leaves the loop through the try's finally clause
GetKeyRaises ==
    /\ pc = "key"
    /\ pc' = "crashed"
    /\ GetKeyRestores
    /\ Finally(pc')
    /\ last' = [op |-> "get_key_raised", dir |-> "NONE", hit |-> "NONE"]
    /\ UNCHANGED <<width, height, paint, game, screen, afterEat>>

Next ==
    \/ Render
    \/ AutoMove
    \/ TimerWait
    \/ KeyQuit
    \/ KeyPress
    \/ KeyNone
    \/ GetKeyRaises

Spec == Init /\ [][Next]_vars

\* The game on the 44 x 44 terminal of the specification's scenario
ScenarioSizes == {<<44, 44>>}

ScenarioInit == InitOn(ScenarioSizes)

\* The driver when no key is ever pressed: get_key returns None every time
NoKeyNext ==
    \/ Render
    \/ AutoMove
    \/ TimerWait
    \/ KeyNone

SpecScenario == ScenarioInit /\ [][NoKeyNext]_vars

\* The driver when no key is ever pressed and time keeps advancing: an
\* iteration of the loop is always completed, and the timer, which is read
\* once per iteration, has elapsed at infinitely many of the reads
NoKeySizes == TermSizes \cup ScenarioSizes

NoKeyInit == InitOn(NoKeySizes)

SpecNoKey ==
    /\ NoKeyInit
    /\ [][NoKeyNext]_vars
    /\ WF_vars(NoKeyNext)
    /\ SF_vars(AutoMove)

\* Game.spawn_apple on its own, called in any state of a game on grids of
\* several sizes, every position it can draw being taken
SpawnSizes == {<<5, 6>>, <<21, 21>>, <<22, 22>>, <<44, 44>>, <<80, 24>>}

SpawnInit == InitOn(SpawnSizes)

SpawnAppleCall ==
    /\ \E p \in spawn_apple(width, height, body, apple) : apple' = p
    /\ screen' = IF paint
                 THEN Apply(screen, << <<apple', "R*">> >>, width, height)
                 ELSE screen
    /\ last' = [op |-> "spawn_apple", dir |-> "NONE", hit |-> "NONE"]
    /\ UNCHANGED <<width, height, paint, body, direction, score, speed, game_over,
                   pc, term, afterEat>>

SpecSpawn == SpawnInit /\ [][SpawnAppleCall]_vars

\* The driver with the surface recorded, on the smallest grid with an edible
\* apple and on one with the apple in a corner, up to the first apple eaten
ScreenSizes == {<<21, 21>>, <<22, 22>>}

ScreenInit == InitWith(ScreenSizes, TRUE)

ScreenNext == Next /\ (score' = 0 \/ afterEat' = 0)

SpecScreen == ScreenInit /\ [][ScreenNext]_vars

----------------------------------------------------------------------------
(* Properties.  A step of the driver is described by the unprimed state,   *)
(* in which the operation starts, and by last', which names the operation. *)

\* This step applied Game.move
MoveMade == last'.hit # "NONE"

\* The new head this step's move computes: head + vector of the move's direction
NewHead == Add(body[Len(body)], DIRECTION_VECTORS[last'.dir])

\* NewHead is a wall cell or lies beyond one
NewHeadOnWall ==
    \/ NewHead[1] <= 0
    \/ NewHead[1] >= height - 1
    \/ NewHead[2] <= 0
    \/ NewHead[2] >= width - 1

\* NewHead is a body cell other than the current head
NewHeadOnBody == \E i \in 1 .. Len(body) - 1 : body[i] = NewHead

\* This step's move consumes the apple
NewHeadEats == ~NewHeadOnWall /\ ~NewHeadOnBody /\ NewHead = apple

\* C1: every move (auto-move or accepted key move) whose new head has row <= 0,
\* row >= height-1, column <= 0 or column >= width-1 leaves game_over true.
C1_WallCollision == [][MoveMade /\ NewHeadOnWall => game_over']_vars

\* a move has just run into the bottom or the right wall
C1_Witness ==
    /\ last.hit = "wall"
    /\ game_over
    /\ head(body)[1] = height - 1 \/ head(body)[2] = width - 1

\* C2: every move whose new head equals a body cell other than the current
\* head, the tail cell that the move vacates included, leaves game_over true.
C2_SelfCollision == [][MoveMade /\ NewHeadOnBody => game_over']_vars

\* a move has just run into the tail cell: the cell was vacated by the same
\* move, so the head is on no other body cell afterwards
C2_Witness ==
    /\ last.hit = "self"
    /\ game_over
    /\ \A i \in 1 .. Len(body) - 1 : body[i] # head(body)

\* C3: a move that does not consume the apple leaves len(body) unchanged, a move
\* that consumes it increases len(body) by exactly 1, and no step changes the
\* length otherwise.
C3_LengthLaw ==
    [][/\ MoveMade /\ NewHeadEats => Len(body') = Len(body) + 1
       /\ ~(MoveMade /\ NewHeadEats) => Len(body') = Len(body)]_vars

\* the snake has grown from 4 to 5 cells by the move that ate the first apple
C3_Witness == last.hit = "apple" /\ score = 1 /\ Len(body) = 5

C5_OppositeRejected ==
    [][last'.op = "get_movement" /\ last'.dir = opposite_directions[direction]
       => UNCHANGED <<direction, body, score, speed, apple, game_over>>]_vars

\* get_movement has just been called with the opposite direction and made no move
C5_Witness ==
    /\ last.op = "get_movement"
    /\ last.dir = opposite_directions[direction]
    /\ last.hit = "NONE"

\* C6: once game_over is true it is true in every later state.
C6_GameOverAbsorbing == [][game_over => game_over']_vars

\* a move was applied when the game was already over and hit nothing, and
\* game_over is still true
C6_Witness == game_over /\ last.op = "get_movement" /\ last.hit = "ok"

\* C7: once a move has set game_over, no further move is applied before the
\* driver loop exits: body, direction, score, speed and apple.position keep the
\* values they had at the end of the move that ended the game.
C7_FrozenAfterGameOver ==
    [][game_over => UNCHANGED <<body, direction, score, speed, apple>>]_vars

\* C8 as stated: a move whose new head is a wall cell sets game_over and
\* leaves snake.body the sequence it was (the wall cell is not appended and the
\* tail is not removed).
C8_BodyUntouchedOnWall ==
    [][MoveMade /\ NewHeadOnWall => game_over' /\ body' = body]_vars

\* C8 as amended: a move whose new head is a wall cell sets game_over and
\* still shifts the body as any move without growth does: the wall cell is
\* appended as the new head and the tail is removed, nothing else.
C8_BodyShiftedOnWall ==
    [][MoveMade /\ NewHeadOnWall =>
            game_over' /\ body' = Tail(body) \o <<NewHead>>]_vars

\* a move has just run into the top or the left wall: the head is the wall cell
C8_Witness ==
    /\ last.hit = "wall"
    /\ game_over
    /\ head(body)[1] = 0 \/ head(body)[2] = 0

\* C9: in every state between moves snake.body is non-empty and every
\* consecutive pair of body points differs by exactly one unit in exactly one
\* axis (the growth point inserted by a growth move is gone when the move ends).
C9_Contiguity ==
    /\ Len(body) >= 1
    /\ \A i \in 1 .. Len(body) - 1 :
         LET dx == body[i + 1][1] - body[i][1]
             dy == body[i + 1][2] - body[i][2]
         IN  \/ dx \in {-1, 1} /\ dy = 0
             \/ dx = 0 /\ dy \in {-1, 1}

\* a second growth move has just ended
C9_Witness == last.hit = "apple" /\ score = 2 /\ Len(body) = 6

\* C10: a key that maps to the direction the snake is already heading, handled
\* by get_movement, causes no step: body, direction, score, speed, apple and
\* game_over are unchanged.
C10_SameDirectionNoOp ==
    [][last'.op = "get_movement" /\ last'.dir = direction
       => UNCHANGED <<body, direction, score, speed, apple, game_over>>]_vars

\* get_movement has just been called with the current direction and made no move
C10_Witness ==
    /\ last.op = "get_movement"
    /\ last.dir = direction
    /\ last.hit = "NONE"

\* C11: on every way the program ends after it has hidden the cursor (game
\* over, quit key, or an exception at startup, in the initial render, in input
\* polling or in a move) the cursor-show sequence has been emitted, and no
\* get_key call leaves stdin in raw mode.
C11_TerminalRestored ==
    /\ pc \in {"done", "crashed"} => ~cursor_hidden
    /\ ~raw_mode

\* C12: a new Game on a 44 x 44 grid has body [(1,3),(2,3),(3,3),(4,3)] heading
\* DOWN, apple (20,20), score 0 and game_over false; one auto-move from there
\* gives body [(2,3),(3,3),(4,3),(5,3)] (length 4), direction DOWN, game_over false.
C12_InitialScenario ==
    /\ /\ width = 44 /\ height = 44
       /\ body = <<<<1, 3>>, <<2, 3>>, <<3, 3>>, <<4, 3>>>>
       /\ direction = "DOWN"
       /\ apple = <<20, 20>>
       /\ score = 0
       /\ ~game_over
    /\ [][/\ body = <<<<1, 3>>, <<2, 3>>, <<3, 3>>, <<4, 3>>>>
          /\ direction = "DOWN"
          /\ last'.op = "auto"
          => /\ body' = <<<<2, 3>>, <<3, 3>>, <<4, 3>>, <<5, 3>>>>
             /\ Len(body') = 4
             /\ direction' = "DOWN"
             /\ ~game_over']_vars

\* the first auto-move of the game on the 44 x 44 grid has just been made
C12_Witness ==
    /\ width = 44 /\ height = 44
    /\ last.op = "auto"
    /\ body = <<<<2, 3>>, <<3, 3>>, <<4, 3>>, <<5, 3>>>>
    /\ direction = "DOWN"
    /\ score = 0
    /\ ~game_over

\* C13: a move whose new head hits a wall or a body cell other than the head
\* never consumes the apple, also when apple.position is that new head: score,
\* speed and apple.position are unchanged by such a move.
C13_CollisionBeforeApple ==
    [][MoveMade /\ (NewHeadOnWall \/ NewHeadOnBody)
       => UNCHANGED <<score, speed, apple>>]_vars

\* a move has just hit a body cell on which the apple lies (the apple was
\* spawned under the snake), and the apple is still there
C13_Witness ==
    /\ last.hit = "self"
    /\ head(body) = apple
    /\ score >= 1

\* C14: in every game state, on every grid, the positions spawn_apple can
\* produce are exactly 1..40 x 1..40, whatever width, height, the previous apple
\* position and the snake body are; the apple is always one of them.
C14_SpawnRange ==
    /\ spawn_apple(width, height, body, apple) = (1 .. 40) \X (1 .. 40)
    /\ apple \in (1 .. 40) \X (1 .. 40)

\* spawn_apple has just put the apple outside a 22 x 22 grid, and on another
\* call on a body cell of the snake
C14_Witness ==
    /\ last.op = "spawn_apple"
    /\ \/ height = 22 /\ apple[1] >= height /\ apple[2] >= width
       \/ \E i \in 1 .. Len(body) : body[i] = apple

\* C15: after the initial render and after every completed move, the surface
\* the incremental repaints have produced is the surface a full-frame render
\* of the current game state produces (whenever that render does not raise).
C15_IncrementalIsFullFrame ==
    paint /\ pc \in {"timer", "key", "done"}
    /\ ~RenderRaises(body, apple, score, width, height)
    => screen = RenderFrame(body, apple, score, width, height)

\* C16: on grids with height >= 6 and width >= 5, in every reachable state in
\* which game_over is false, the cells of snake.body are pairwise distinct and
\* each lies strictly inside the walls.
C16_BodyInsideAndDistinct ==
    height >= 6 /\ width >= 5 /\ ~game_over
    => /\ \A i, j \in 1 .. Len(body) : i # j => body[i] # body[j]
       /\ \A i \in 1 .. Len(body) :
             /\ 1 <= body[i][1] /\ body[i][1] <= height - 2
             /\ 1 <= body[i][2] /\ body[i][2] <= width - 2

\* a grown snake moves on along the last row inside the bottom wall
C16_Witness ==
    /\ ~game_over
    /\ score = 2
    /\ last.hit = "ok"
    /\ head(body)[1] = height - 2

\* C17: the growth point inserted at index 0 is the element pop(0) removes in
\* the same move: a growth move leaves the previous body with the new head
\* appended, any other move leaves the previous body without its first element
\* with the new head appended.
C17_GrowthPointPopped ==
    [][MoveMade =>
          body' = IF last'.hit = "apple"
                  THEN Append(body, NewHead)
                  ELSE Append(Tail(body), NewHead)]_vars

\* the third apple has just been eaten and the old tail has stayed
C17_Witness == last.hit = "apple" /\ score = 3 /\ Len(body) = 7

\* C18: between moves len(snake.body) = 4 + score, and score never decreases:
\* it grows by one on a growth move and is unchanged by every other step.
C18_LengthIsFourPlusScore ==
    /\ [](Len(body) = 4 + score)
    /\ [][score' = IF MoveMade /\ last'.hit = "apple" THEN score + 1 ELSE score]_vars

\* a snake that has eaten three apples moves on
C18_Witness == score = 3 /\ Len(body) = 7 /\ last.hit = "ok"

\* The heading embodied in the body: head minus the point before it
Heading == <<body[Len(body)][1] - body[Len(body) - 1][1],
             body[Len(body)][2] - body[Len(body) - 1][2]>>

\* C19: in the initial state and after every move, head minus the point before
\* it is the unit vector of snake.direction; and no key move get_movement
\* accepts places the new head on the neck cell body[-2].
C19_DirectionEmbodied ==
    /\ [](Heading = DIRECTION_VECTORS[direction])
    /\ [][last'.op = "get_movement" /\ MoveMade
          => NewHead # body[Len(body) - 1]]_vars

\* an accepted key has just turned the snake to the left after an apple
C19_Witness ==
    /\ last.op = "get_movement"
    /\ last.hit = "ok"
    /\ last.dir = "LEFT"
    /\ score = 1
    /\ Heading = <<0, -1>>

\* C20: when no key is ever pressed and the auto-move timer keeps firing, a
\* game that has entered the driver loop ends: every move is an auto-move
\* heading DOWN that takes the head one row further, game_over becomes true
\* with the head on the wall row height-1, and the loop exits.
C20_Termination ==
    /\ [][MoveMade => /\ last'.op = "auto"
                      /\ last'.dir = "DOWN"
                      /\ head(body') = <<head(body)[1] + 1, head(body)[2]>>]_vars
    /\ (pc = "timer") ~> (pc = "done" /\ game_over /\ head(body)[1] = height - 1)

\* the loop has exited after the auto-moves alone took the head to the bottom
\* wall of a 22-row grid
C20_Witness ==
    /\ pc = "done"
    /\ game_over
    /\ height = 22
    /\ head(body) = <<21, 3>>
    /\ last.op = "idle"

====
